---- MODULE Spec2Model ----
(***************************************************************************)
(* Sentinel SOC agent: the threat-assessment pipeline (SQLiAgent and       *)
(* SentinelWorkflow behind POST /v1/analyze) and the scheduled expiry      *)
(* sweep of the mitigation registry.                                       *)
(*                                                                         *)
(* Two state machines share this module.  AgentSpec is SQLiAgent.analyze   *)
(* (heuristic pre-filter, classifier call, consistency floor, fallback).   *)
(* Spec is the deployed worker: /v1/analyze running SentinelWorkflow.run   *)
(* step by step, the KV store with its TTLs, the firewall API and the      *)
(* cron-triggered cleanup.  Each specification leaves the other machine's  *)
(* variables untouched.                                                    *)
(***************************************************************************)
EXTENDS Integers, Sequences, FiniteSets, TLC

VARIABLES
    \* ---- SQLiAgent.analyze ----
    agentPc,        \* "start" | "awaitAI" | "done"
    agentFlags,     \* the patterns of the table that match the normalized payload
    agentKeywords,  \* keywordCount
    aiAnswer,       \* how the awaited AI.run settled
    agentResult,    \* the SecurityAssessment analyze() resolved with
    agentPath,      \* "none" | "heuristic" | "verdict" | "fallback"
    aiCalls,        \* number of env.AI.run calls made by the agent
    deadlinePassed, \* the caller's deadline elapsed while AI.run was pending
    \* ---- SQLiAgent.normalize ----
    normText,       \* the string at hand: the payload, then what normalize returned
    normFirst,      \* what the first call of normalize returned
    normPasses,     \* decodeURIComponent calls made by the latest call
    normCalls,      \* calls of normalize made so far
    \* ---- worker: clock, stores, firewall ----
    now,            \* Date.now(), in ticks
    cfg,            \* env bindings: which optional secrets are configured
    cache,          \* SENTINEL_KV "assessment:<cacheKey>" entries
    registry,       \* SENTINEL_KV "mitigation:<sourceIP>" entries
    rules,          \* firewall access rules that exist in the zone
    nextRule,       \* the id the firewall API gives to the next created rule
    created,        \* every rule id the pipeline ever created
    deleteReqs,     \* every rule id a DELETE was requested for
    classified,     \* per cache key: AI.run calls the pipeline made for it
    \* ---- worker: /v1/analyze requests ----
    run,            \* the request being executed, its position and locals
    parked,         \* a second request in flight, suspended at an await
    \* ---- worker: scheduled() ----
    sweep,          \* the cleanup invocation being executed, its position and locals
    parkedSweep,    \* a second cleanup invocation, suspended at an await
    \* ---- worker: IPS middleware ----
    ipsReq          \* the non-excluded request being screened, its position and locals

normVars == <<normText, normFirst, normPasses, normCalls>>
agentVars == <<agentPc, agentFlags, agentKeywords, aiAnswer, agentResult,
               agentPath, aiCalls, deadlinePassed, normVars>>
storeVars == <<now, cfg, cache, registry, rules, nextRule, created, deleteReqs>>
workerVars == <<storeVars, classified, run, parked, sweep, parkedSweep, ipsReq>>
vars == <<agentVars, workerVars>>

(***************************************************************************)
(* JSON values as the code sees them: a value carries its typeof.          *)
(***************************************************************************)
Str(x) == [t |-> "string", s |-> x, n |-> 0]
Num(k) == [t |-> "number", s |-> "", n |-> k]
Undefined == [t |-> "undefined", s |-> "", n |-> 0]

\* v < k in JavaScript for the values used here: a number compares, undefined
\* and a non-numeric string become NaN and compare false.
JsLess(v, k) == v.t = "number" /\ v.n < k
JsGreater(v, k) == v.t = "number" /\ v.n > k
JsGreaterEq(v, k) == v.t = "number" /\ v.n >= k

\* An object literal with the seven fields of SecurityAssessment; a missing
\* field reads as undefined.  (timestamp is added by every path and carries
\* no decision; it is left out of the model.)
Assessment(att, conf, expl, imp, mit, risk, act) ==
    [attackType |-> att, confidence |-> conf, explanation |-> expl,
     impact |-> imp, mitigation |-> mit, riskScore |-> risk, action |-> act]

NoAssessment == Assessment(Undefined, Undefined, Undefined, Undefined,
                           Undefined, Undefined, Undefined)

isSecurityAssessment(o) ==
    /\ o.attackType.t = "string"
    /\ o.confidence \in {Str("High"), Str("Medium"), Str("Low")}
    /\ o.explanation.t = "string"
    /\ o.impact.t = "string"
    /\ o.mitigation.t = "string"
    /\ o.riskScore.t = "number"
    /\ o.action \in {Str("allow"), Str("block"), Str("flag")}

(***************************************************************************)
(* What the classifier (env.AI.run) can answer.                            *)
(***************************************************************************)
\* How far outside [0,100] a classifier's riskScore is taken.
ScoreSlack == 1

RiskInputs == (0 - ScoreSlack)..(100 + ScoreSlack)

Verdict(k, act) ==
    Assessment(Str("SQLi"), Str("High"), Str("reason"), Str("Auth Bypass"),
               Str("Prepared Statements"), Num(k), Str(act))

\* Parseable JSON that is not a SecurityAssessment: a field missing, a field
\* of the wrong type, an enumerated field outside its set.
NonConforming ==
    { [Verdict(95, "block") EXCEPT !.impact = Undefined],
      [Verdict(95, "block") EXCEPT !.mitigation = Undefined, !.impact = Undefined],
      [Verdict(40, "allow") EXCEPT !.riskScore = Str("high")],
      [Verdict(40, "allow") EXCEPT !.riskScore = Undefined],
      [Verdict(60, "flag") EXCEPT !.action = Str("deny")],
      [Verdict(60, "block") EXCEPT !.confidence = Str("Certain")],
      [Verdict(10, "allow") EXCEPT !.attackType = Num(7)] }

\* AI.run rejects ("throw"), answers text holding no JSON object ("text"), or
\* answers text whose {...} part parses to the object obj ("json").
AIOutcome(kind, obj) == [kind |-> kind, obj |-> obj]

NoAnswer == AIOutcome("pending", NoAssessment)

AgentAIOutcomes ==
    {AIOutcome("throw", NoAssessment), AIOutcome("text", NoAssessment)}
    \cup {AIOutcome("json", Verdict(k, act)) :
            k \in RiskInputs, act \in {"allow", "flag", "block"}}
    \cup {AIOutcome("json", o) : o \in NonConforming}

(***************************************************************************)
(* SQLiAgent                                                               *)
(***************************************************************************)
THRESHOLD == 50

Patterns == {"Tautology", "Union Payload", "System Variable", "Logic Replacement",
             "Time-Based Injection", "Stacked Query", "SQL Comment Char"}

PatternScore(name) ==
    CASE name = "Tautology" -> 60
      [] name = "Union Payload" -> 70
      [] name = "System Variable" -> 50
      [] name = "Logic Replacement" -> 45
      [] name = "Time-Based Injection" -> 80
      [] name = "Stacked Query" -> 60
      [] name = "SQL Comment Char" -> 10

RECURSIVE SumScores(_)
SumScores(S) ==
    IF S = {} THEN 0
    ELSE LET p == CHOOSE x \in S : TRUE
         IN PatternScore(p) + SumScores(S \ {p})

Min(a, b) == IF a <= b THEN a ELSE b

\* Keywords of the list that the analyzed payloads hold, at most.
MaxKeywords == 3

\* Variant of heuristicAnalysis: the bonus grows with each keyword.
heuristicAnalysis_PerKeyword(matched, keywords) ==
    Min(SumScores(matched) + 20 * keywords, 100)

\* heuristicAnalysis on a payload that matches exactly the patterns `matched`
\* and holds `keywords` of the listed keywords.
heuristicAnalysis(matched, keywords) ==
    Min(SumScores(matched) + (IF keywords >= 2 THEN 20 ELSE 0), 100)

\* analyze()'s early return.
LowRisk(score) ==
    Assessment(Str("SQLi"), Str("Low"), Str("low probability"), Str("None"),
               Str("None"), Num(score), Str("allow"))

\* Variant of HeuristicFallback: blocks from 80 up instead of above 80.
HeuristicFallback_BlockAtEighty(heuristicScore) ==
    Assessment(Str("SQLi (Heuristic Fallback)"), Str("Medium"),
               Str("AI Verification failed"), Str("Potential SQL Injection"),
               Str("Manual Review"), Num(heuristicScore),
               Str(IF heuristicScore >= 80 THEN "block" ELSE "flag"))

\* aiVerification's catch block.
HeuristicFallback(heuristicScore) ==
    Assessment(Str("SQLi (Heuristic Fallback)"), Str("Medium"),
               Str("AI Verification failed"), Str("Potential SQL Injection"),
               Str("Manual Review"), Num(heuristicScore),
               Str(IF heuristicScore > 80 THEN "block" ELSE "flag"))

\* "Enforce minimum risk score if AI confirms attack but gives low score".
EnforceMinimum(a) ==
    IF a.action = Str("block") /\ JsLess(a.riskScore, 70)
    THEN [a EXCEPT !.riskScore = Num(75)]
    ELSE a

\* Variant of aiVerification without its catch: a rejected AI.run or an
\* unparseable answer rejects the promise of analyze().
aiVerification_NoCatch(heuristicScore, r) ==
    IF r.kind = "json"
    THEN [path |-> "verdict", result |-> EnforceMinimum(r.obj)]
    ELSE [path |-> "rejected", result |-> NoAssessment]

\* aiVerification once AI.run has settled with outcome r: JSON.parse is the
\* only check made on the answer.
aiVerification(heuristicScore, r) ==
    IF r.kind = "json"
    THEN [path |-> "verdict", result |-> EnforceMinimum(r.obj)]
    ELSE [path |-> "fallback", result |-> HeuristicFallback(heuristicScore)]

AgentInit ==
    /\ agentPc = "start"
    /\ agentFlags \in SUBSET Patterns
    /\ agentKeywords \in 0..MaxKeywords
    /\ aiAnswer = NoAnswer
    /\ agentResult = NoAssessment
    /\ agentPath = "none"
    /\ aiCalls = 0
    /\ deadlinePassed = FALSE

\* Variant of analyze: returns early only below the threshold.
analyze_StrictThreshold ==
    /\ agentPc = "start"
    /\ LET score == heuristicAnalysis(agentFlags, agentKeywords)
       IN IF score < THRESHOLD
          THEN /\ agentResult' = LowRisk(score)
               /\ agentPath' = "heuristic"
               /\ agentPc' = "done"
               /\ UNCHANGED aiCalls
          ELSE /\ agentPc' = "awaitAI"
               /\ aiCalls' = aiCalls + 1
               /\ UNCHANGED <<agentResult, agentPath>>
    /\ UNCHANGED <<agentFlags, agentKeywords, aiAnswer, deadlinePassed, normVars,
                   workerVars>>

\* analyze(): layers 1-2, then either the early return or the call of AI.run.
analyze ==
    /\ agentPc = "start"
    /\ LET score == heuristicAnalysis(agentFlags, agentKeywords)
       IN IF score <= THRESHOLD
          THEN /\ agentResult' = LowRisk(score)
               /\ agentPath' = "heuristic"
               /\ agentPc' = "done"
               /\ UNCHANGED aiCalls
          ELSE /\ agentPc' = "awaitAI"
               /\ aiCalls' = aiCalls + 1
               /\ UNCHANGED <<agentResult, agentPath>>
    /\ UNCHANGED <<agentFlags, agentKeywords, aiAnswer, deadlinePassed, normVars,
                   workerVars>>

\* The awaited AI.run settles; aiVerification runs to its return.
AISettles ==
    /\ agentPc = "awaitAI"
    /\ \E r \in AgentAIOutcomes :
         LET v == aiVerification(heuristicAnalysis(agentFlags, agentKeywords), r)
         IN /\ aiAnswer' = r
            /\ agentResult' = v.result
            /\ agentPath' = v.path
    /\ agentPc' = "done"
    /\ UNCHANGED <<agentFlags, agentKeywords, aiCalls, deadlinePassed, normVars,
                   workerVars>>

\* The caller's deadline passes while AI.run is pending.  The await has no
\* timeout, abort signal or race: nothing in the agent reads this.
DeadlineElapses ==
    /\ agentPc = "awaitAI"
    /\ ~deadlinePassed
    /\ deadlinePassed' = TRUE
    /\ UNCHANGED <<agentPc, agentFlags, agentKeywords, aiAnswer, agentResult,
                   agentPath, aiCalls, normVars, workerVars>>

AgentNext == analyze \/ AISettles \/ DeadlineElapses

(***************************************************************************)
(* SQLiAgent.normalize, on strings as sequences of character codes         *)
(***************************************************************************)
IsHex(c) == c \in (48..57) \cup (65..70) \cup (97..102)

HexVal(c) == IF c <= 57 THEN c - 48 ELSE IF c <= 70 THEN c - 55 ELSE c - 87

\* decodeURIComponent: every %hh becomes the character with that code; a "%"
\* not followed by two hex digits, or a byte that cannot start a character,
\* is a URIError for the whole call.  (Bytes 0x80..0xBF never start a
\* character; a lead byte 0xC2..0xF4 needs a hex digit C..F, which no string
\* of the model holds.)
RECURSIVE decodeURIComponent(_)
decodeURIComponent(s) ==
    IF s = <<>> THEN [ok |-> TRUE, text |-> <<>>]
    ELSE IF Head(s) # 37
    THEN LET r == decodeURIComponent(Tail(s))
         IN [ok |-> r.ok, text |-> <<Head(s)>> \o r.text]
    ELSE IF Len(s) < 3 \/ ~IsHex(s[2]) \/ ~IsHex(s[3])
    THEN [ok |-> FALSE, text |-> <<>>]
    ELSE LET byte == 16 * HexVal(s[2]) + HexVal(s[3])
             r == decodeURIComponent(SubSeq(s, 4, Len(s)))
         IN IF byte >= 128 THEN [ok |-> FALSE, text |-> <<>>]
            ELSE [ok |-> r.ok, text |-> <<byte>> \o r.text]

\* "1. Recursive URL Decoding": while (normalized !== previous), with the
\* break out of the catch.  passes counts the decodeURIComponent calls.
RECURSIVE DecodeLoop(_, _, _)
DecodeLoop(normalized, previous, passes) ==
    IF normalized = previous
    THEN [text |-> normalized, passes |-> passes]
    ELSE LET r == decodeURIComponent(normalized)
         IN IF ~r.ok
            THEN [text |-> normalized, passes |-> passes + 1]
            ELSE DecodeLoop(r.text, normalized, passes + 1)

toLowerCase(s) == [i \in 1..Len(s) |-> IF s[i] \in 65..90 THEN s[i] + 32 ELSE s[i]]

\* \s for the characters below 128: tab, LF, VT, FF, CR, space.
IsSpace(c) == c \in {9, 10, 11, 12, 13, 32}

\* replace(/\s+/g, " ")
RECURSIVE CollapseSpace(_)
CollapseSpace(s) ==
    IF s = <<>> THEN <<>>
    ELSE IF IsSpace(Head(s))
    THEN IF Len(s) >= 2 /\ IsSpace(s[2])
         THEN CollapseSpace(Tail(s))
         ELSE <<32>> \o CollapseSpace(Tail(s))
    ELSE <<Head(s)>> \o CollapseSpace(Tail(s))

\* The first index at which the two characters a, b follow each other, from
\* index `from` on; 0 when there is none.
FindPair(s, a, b, from) ==
    LET S == {i \in from..(Len(s) - 1) : s[i] = a /\ s[i + 1] = b}
    IN IF S = {} THEN 0 ELSE CHOOSE i \in S : \A j \in S : i <= j

\* replace(/--.*$/gm, ""): the text holds no line terminator any more
\* (whitespace was collapsed), so the match runs to the end of the string.
StripDashComment(s) ==
    LET i == FindPair(s, 45, 45, 1)
    IN IF i = 0 THEN s ELSE SubSeq(s, 1, i - 1)

\* replace(/\/\*[\s\S]*?\*\//g, ""): leftmost opener, nearest closer, and on
\* with the text after the closer.
RECURSIVE StripBlockComments(_)
StripBlockComments(s) ==
    LET i == FindPair(s, 47, 42, 1)
        j == IF i = 0 THEN 0 ELSE FindPair(s, 42, 47, i + 2)
    IN IF j = 0 THEN s
       ELSE SubSeq(s, 1, i - 1) \o StripBlockComments(SubSeq(s, j + 2, Len(s)))

\* replace(/#.*$/gm, "")
StripHashComment(s) ==
    LET S == {i \in 1..Len(s) : s[i] = 35}
    IN IF S = {} THEN s
       ELSE SubSeq(s, 1, (CHOOSE i \in S : \A j \in S : i <= j) - 1)

\* replace(/\0/g, "")
RemoveNullBytes(s) == SelectSeq(s, LAMBDA c : c # 0)

RECURSIVE TrimStart(_)
TrimStart(s) == IF s # <<>> /\ IsSpace(Head(s)) THEN TrimStart(Tail(s)) ELSE s

RECURSIVE TrimEnd(_)
TrimEnd(s) ==
    IF s # <<>> /\ IsSpace(s[Len(s)]) THEN TrimEnd(SubSeq(s, 1, Len(s) - 1)) ELSE s

\* Steps 2 to 7 of normalize, on the decoded text.
CleanDecoded(s) ==
    LET lowered == toLowerCase(s)
        spaced == CollapseSpace(lowered)
        noDash == StripDashComment(spaced)
        noBlock == StripBlockComments(noDash)
        noHash == StripHashComment(noBlock)
        noNull == RemoveNullBytes(noHash)
    IN TrimEnd(TrimStart(CollapseSpace(noNull)))

normalize(payload) == CleanDecoded(DecodeLoop(payload, <<>>, 0).text)

\* Strings of the model: every string of at most MaxLen characters over
\* "-", "/", "*", "#", NUL, space, "A", "%", "2", "5", and the payload "%41"
\* percent-encoded over again up to MaxNesting times.
MaxLen == 4
MaxNesting == 10

Alphabet == {45, 47, 42, 35, 0, 32, 65, 37, 50, 53}

RECURSIVE Nested(_)
Nested(d) ==
    IF d = 0 THEN <<37, 52, 49>>
    ELSE <<37, 50, 53>> \o Tail(Nested(d - 1))

NormInputs ==
    UNION {[1..n -> Alphabet] : n \in 0..MaxLen}
    \cup {Nested(d) : d \in 0..MaxNesting}

NormIdle ==
    /\ normText = <<>>
    /\ normFirst = <<>>
    /\ normPasses = 0
    /\ normCalls = 0

NormInit ==
    /\ normText \in NormInputs
    /\ normFirst = <<>>
    /\ normPasses = 0
    /\ normCalls = 0

\* normalize is called on the string at hand: first on the payload, then on
\* its own result.
CallNormalize ==
    /\ normCalls < 2
    /\ normText' = normalize(normText)
    /\ normFirst' = IF normCalls = 0 THEN normalize(normText) ELSE normFirst
    /\ normPasses' = DecodeLoop(normText, <<>>, 0).passes
    /\ normCalls' = normCalls + 1
    /\ UNCHANGED <<agentPc, agentFlags, agentKeywords, aiAnswer, agentResult,
                   agentPath, aiCalls, deadlinePassed, workerVars>>

(***************************************************************************)
(* The worker: bounds of the model                                         *)
(***************************************************************************)
\* Hours the clock runs for.
MaxTime == 3
\* The clock counts hours: the block duration and the registry TTL are one.
Hour == 1
\* Source addresses 1..NumIPs; NoIP stands for "no source header present".
NumIPs == 5
\* /v1/analyze requests served in one behaviour.
MaxRequests == 2
\* Keys per KV.list page (limit: 1000 in scheduled()).
PageLimit == 2

NoIP == 0
SourceIPs == 1..NumIPs
\* The source the requests of the worker specifications come from.
Clients == {1}

\* Raw payloads, as sequences of characters.
Payloads == { <<"a">>, <<"A", " ">> }

Lower(c) == IF c = "A" THEN "a" ELSE c

RECURSIVE TrimLeft(_)
TrimLeft(p) == IF p # <<>> /\ Head(p) = " " THEN TrimLeft(Tail(p)) ELSE p

RECURSIVE TrimRight(_)
TrimRight(p) ==
    IF p # <<>> /\ p[Len(p)] = " " THEN TrimRight(SubSeq(p, 1, Len(p) - 1)) ELSE p

\* step "sanitize-payload": payload.trim().toLowerCase().replace(/\0/g, "")
sanitizePayload(p) ==
    LET t == TrimRight(TrimLeft(p))
        l == [i \in 1..Len(t) |-> Lower(t[i])]
    IN SelectSeq(l, LAMBDA c : c # "\\0")

\* SHA-256 of payload + "-v2-salt", hex encoded: a digest of the raw request
\* text, distinct for distinct texts of the modelled set.
cacheKeyOf(p) == <<"sha256">> \o p \o <<"-v2-salt">>

CacheKeys == {cacheKeyOf(p) : p \in Payloads}

\* A firewall rule id as returned in result.id.
RuleId(k) == [t |-> "string", s |-> "rule", n |-> k]

\* What the classifier answers in the worker: verdicts at and around the tiers
\* (70/80 tracking and alerting, 90/95 severity and blocking), one score
\* outside [0,100], and the failure shapes.
WorkerRisk == {70, 80, 85, 90, 95, 100 + ScoreSlack}

WorkerVerdicts ==
    {Verdict(k, "block") : k \in WorkerRisk}
    \cup {Verdict(k, "allow") : k \in {80, 85}}

WorkerAIOutcomes ==
    {AIOutcome("throw", NoAssessment), AIOutcome("text", NoAssessment),
     AIOutcome("json", [Verdict(95, "block") EXCEPT !.impact = Undefined])}
    \cup {AIOutcome("json", v) : v \in WorkerVerdicts}

(***************************************************************************)
(* SentinelWorkflow.run, step by step                                      *)
(***************************************************************************)
\* The fail-safe default of "ai-risk-inference".
SystemFailure ==
    Assessment(Str("System Failure"), Str("Low"), Str("AI Inference failed"),
               Str("Unable to assess threat level"), Str("Manual review required"),
               Num(100), Str("block"))

\* Variant of "ai-risk-inference" without the isSecurityAssessment guard.
aiRiskInference_Unvalidated(r) ==
    IF r.kind = "json"
    THEN [path |-> "verdict", result |-> r.obj]
    ELSE [path |-> "failsafe", result |-> SystemFailure]

\* "ai-risk-inference" once AI.run has settled with outcome r.
aiRiskInference(r) ==
    IF r.kind = "json" /\ isSecurityAssessment(r.obj)
    THEN [path |-> "verdict", result |-> r.obj]
    ELSE [path |-> "failsafe", result |-> SystemFailure]

\* Variant of shouldAlert: the score tier starts at 90.
shouldAlert_AtNinety(a) == a.action = Str("block") \/ JsGreaterEq(a.riskScore, 90)

shouldAlert(a) == a.action = Str("block") \/ JsGreater(a.riskScore, 80)

severity(a) ==
    IF JsGreaterEq(a.riskScore, 90) THEN "critical"
    ELSE IF JsGreaterEq(a.riskScore, 70) THEN "high"
    ELSE "medium"

severity_id(a) ==
    IF JsGreaterEq(a.riskScore, 95) THEN 5
    ELSE IF JsGreaterEq(a.riskScore, 90) THEN 4
    ELSE IF JsGreaterEq(a.riskScore, 70) THEN 3
    ELSE 2

\* Variant of shouldBlock: the verdict's action decides.
shouldBlock_OnAction(a) == a.action = Str("block")

shouldTrack(a) == JsGreater(a.riskScore, 70)
shouldBlock(a) == JsGreaterEq(a.riskScore, 95)

NoAlert == [sent |-> FALSE, severity |-> "none", severity_id |-> 0]
NoResponse == [status |-> 0, body |-> "none", assessment |-> NoAssessment]
NoRecord == [present |-> FALSE, ruleId |-> Undefined, expiresAt |-> 0, kvExpires |-> 0]

\* What is kept of the request served before this one (history).
NoPrev == [payload |-> <<>>, path |-> "none", assessment |-> NoAssessment,
           cacheWrite |-> "none"]

IdleRun(n) ==
    [pc |-> "idle", payload |-> <<>>, sourceIP |-> NoIP, read |-> "none",
     prev |-> NoPrev,
     answer |-> NoAnswer, assessment |-> NoAssessment, cacheWrite |-> "none",
     path |-> "none", alert |-> NoAlert, expiresAt |-> 0, ruleId |-> Undefined,
     posts |-> 0, createAnswer |-> "none", put |-> "none",
     thrown |-> FALSE, response |-> NoResponse, served |-> n]

\* snapshot, visited, requested, removed and deletedRules are history: the
\* keys the registry held when scheduled() began, the keys the for loop has
\* taken, in order, the keys for whose rule this invocation has sent a
\* DELETE, the records its KV deletes removed and the rules its DELETEs
\* removed from the firewall.
IdleSweep ==
    [pc |-> "idle", keys |-> <<>>, idx |-> 0, cursor |-> 0, nextCursor |-> 0,
     listComplete |-> FALSE,
     ruleId |-> Undefined, cleanedCount |-> 0, errorCount |-> 0, totalKeysScanned |-> 0, batchNumber |-> 0,
     snapshot |-> {}, visited |-> <<>>, requested |-> {},
     removed |-> 0, deletedRules |-> {}]

\* A request to a path outside the excluded ones, before the middleware has
\* taken it.
IdleIps ==
    [pc |-> "idle", payload |-> <<>>, sourceIP |-> NoIP, read |-> "none",
     answer |-> NoAnswer, assessment |-> NoAssessment, put |-> "none",
     response |-> NoResponse, served |-> 0]

\* The answers of the middleware: 403 with the Assessment, or the origin's 200.
Forbidden(a) == [status |-> 403, body |-> "forbidden", assessment |-> a]
PassThrough == [status |-> 200, body |-> "origin", assessment |-> NoAssessment]

\* The 200 response of /v1/analyze.
Analyzed(a) == [status |-> 200, body |-> "analyzed", assessment |-> a]
Cached(a) == [status |-> 200, body |-> "cached", assessment |-> a]
\* The catch of fetch(): JSON {error: message} with status 500.
ApiError == [status |-> 500, body |-> "error", assessment |-> NoAssessment]

WorkerInit ==
    /\ now = 0
    /\ classified = [k \in CacheKeys |-> 0]
    /\ parked = IdleRun(0)
    /\ parkedSweep = IdleSweep
    /\ ipsReq = IdleIps
    /\ cfg \in [soc : BOOLEAN, cf : BOOLEAN]
    /\ cache = [k \in CacheKeys |-> NoAssessment]
    /\ registry = [ip \in SourceIPs |-> NoRecord]
    /\ rules = {}
    /\ nextRule = 1
    /\ created = {}
    /\ deleteReqs = {}
    /\ run = IdleRun(0)
    /\ sweep = IdleSweep

\* Variant of Accept in which a cache hit is handed to the escalation steps
\* instead of being answered at once.
Accept_EscalatesOnHit(p, ip, read, n) ==
    LET cached == IF read = "ok" THEN cache[cacheKeyOf(p)] ELSE NoAssessment
        r == [IdleRun(n) EXCEPT !.payload = p, !.sourceIP = ip, !.read = read,
                                !.prev = [payload |-> run.payload, path |-> run.path,
                                          assessment |-> run.assessment,
                                          cacheWrite |-> run.cacheWrite]]
    IN IF cached # NoAssessment
       THEN [r EXCEPT !.pc = "alert", !.path = "cached", !.assessment = cached]
       ELSE [r EXCEPT !.pc = "infer"]

\* Variant of Accept in which getAssessment has no catch: a failed KV read
\* rejects and fetch() answers from its own catch.
Accept_NoCatch(p, ip, read, n) ==
    LET cached == IF read = "ok" THEN cache[cacheKeyOf(p)] ELSE NoAssessment
        r == [IdleRun(n) EXCEPT !.payload = p, !.sourceIP = ip, !.read = read,
                                !.prev = [payload |-> run.payload, path |-> run.path,
                                          assessment |-> run.assessment,
                                          cacheWrite |-> run.cacheWrite]]
    IN IF read = "fail"
       THEN [r EXCEPT !.pc = "done", !.path = "error", !.thrown = TRUE,
                      !.response = ApiError]
       ELSE IF cached # NoAssessment
       THEN [r EXCEPT !.pc = "done", !.path = "cached",
                      !.assessment = cached, !.response = Cached(cached)]
       ELSE [r EXCEPT !.pc = "infer"]

\* POST /v1/analyze with a valid body: the cache key, then the read-through
\* cache check.  getAssessment turns a failed KV read into a miss.
Accept(p, ip, read, n) ==
    LET cached == IF read = "ok" THEN cache[cacheKeyOf(p)] ELSE NoAssessment
        r == [IdleRun(n) EXCEPT !.payload = p, !.sourceIP = ip, !.read = read,
                                !.prev = [payload |-> run.payload, path |-> run.path,
                                          assessment |-> run.assessment,
                                          cacheWrite |-> run.cacheWrite]]
    IN IF cached # NoAssessment
       THEN [r EXCEPT !.pc = "done", !.path = "cached",
                      !.assessment = cached, !.response = Cached(cached)]
       ELSE [r EXCEPT !.pc = "infer"]

\* Requests received so far.
Served == IF parked.served > run.served THEN parked.served ELSE run.served

Receive(payloads, ips, reads) ==
    /\ run.pc \in {"idle", "done"}
    /\ Served < MaxRequests
    /\ \E p \in payloads, ip \in ips, read \in reads :
         run' = Accept(p, ip, read, Served + 1)
    /\ UNCHANGED <<agentVars, ipsReq, parkedSweep, classified, parked, storeVars, sweep>>

\* Variant of the first steps in which run() does not await "log-and-cache"
\* and goes straight on to "trigger-soc-alert".
Infer_CacheNotAwaited(outcomes) ==
    /\ run.pc = "infer"
    /\ \E r \in outcomes :
         LET v == aiRiskInference(r)
         IN run' = [run EXCEPT !.pc = "alert", !.answer = r,
                                !.assessment = v.result, !.path = v.path]
    /\ classified' = [classified EXCEPT ![cacheKeyOf(run.payload)] = @ + 1]
    /\ UNCHANGED <<agentVars, ipsReq, parkedSweep, parked, storeVars, sweep>>

\* Steps "sanitize-payload" and "ai-risk-inference".
Infer(outcomes) ==
    /\ run.pc = "infer"
    /\ \E r \in outcomes :
         LET v == aiRiskInference(r)
         IN run' = [run EXCEPT !.pc = "cache", !.answer = r,
                                !.assessment = v.result, !.path = v.path]
    /\ classified' = [classified EXCEPT ![cacheKeyOf(run.payload)] = @ + 1]
    /\ UNCHANGED <<agentVars, ipsReq, parkedSweep, parked, storeVars, sweep>>

\* Variant of "log-and-cache" without the System Failure test: every
\* Assessment is stored.
LogAndCache_StoreAll(writes) ==
    /\ run.pc = "cache"
    /\ \E w \in writes :
         /\ cache' = IF w = "ok"
                     THEN [cache EXCEPT ![cacheKeyOf(run.payload)] = run.assessment]
                     ELSE cache
         /\ run' = [run EXCEPT !.pc = "alert", !.cacheWrite = w]
    /\ UNCHANGED <<agentVars, ipsReq, parkedSweep, classified, parked, now, cfg, registry, rules, nextRule, created,
                   deleteReqs, sweep>>

\* Variant of "log-and-cache" that logs the Assessment and stores nothing.
LogAndCache_NoStore(writes) ==
    /\ run.pc = "cache"
    /\ \E w \in writes :
         IF run.assessment.attackType # Str("System Failure")
         THEN run' = [run EXCEPT !.pc = "alert", !.cacheWrite = w]
         ELSE run' = [run EXCEPT !.pc = "alert"]
    /\ UNCHANGED <<agentVars, ipsReq, parkedSweep, classified, parked, storeVars, sweep>>

\* Step "log-and-cache": storeAssessment logs and drops a failed KV write.
LogAndCache(writes) ==
    /\ run.pc = "cache"
    /\ \E w \in writes :
         IF run.assessment.attackType # Str("System Failure")
         THEN /\ cache' = IF w = "ok"
                          THEN [cache EXCEPT ![cacheKeyOf(run.payload)] = run.assessment]
                          ELSE cache
              /\ run' = [run EXCEPT !.pc = "alert", !.cacheWrite = w]
         ELSE /\ cache' = cache
              /\ run' = [run EXCEPT !.pc = "alert"]
    /\ UNCHANGED <<agentVars, ipsReq, parkedSweep, classified, parked, now, cfg, registry, rules, nextRule, created,
                   deleteReqs, sweep>>

\* Step "trigger-soc-alert": the webhook answers ok, answers an error status
\* or the fetch rejects; the last two are caught inside the step.
TriggerSocAlert(answers) ==
    /\ run.pc = "alert"
    /\ \E w \in answers :
         run' = IF shouldAlert(run.assessment) /\ cfg.soc
                THEN [run EXCEPT !.pc = "mitigate",
                                 !.alert = [sent |-> TRUE,
                                            severity |-> severity(run.assessment),
                                            severity_id |-> severity_id(run.assessment)]]
                ELSE [run EXCEPT !.pc = "mitigate"]
    /\ UNCHANGED <<agentVars, ipsReq, parkedSweep, classified, parked, storeVars, sweep>>

\* Step "mitigate-threat" up to its first await: the tier checks, expiresAt,
\* and either the POST to the firewall API or straight on to the KV write.
MitigateBegin ==
    /\ run.pc = "mitigate"
    /\ run' = IF ~shouldTrack(run.assessment) \/ run.sourceIP = NoIP
              THEN [run EXCEPT !.pc = "done", !.response = Analyzed(run.assessment)]
              ELSE IF shouldBlock(run.assessment) /\ cfg.cf
              THEN [run EXCEPT !.pc = "enforce", !.expiresAt = now + Hour,
                               !.posts = 1]
              ELSE [run EXCEPT !.pc = "put", !.expiresAt = now + Hour]
    /\ UNCHANGED <<agentVars, ipsReq, parkedSweep, classified, parked, storeVars, sweep>>

\* The firewall API answers the POST: "created" (2xx with result.id), "429",
\* "error" (another status, or the fetch rejects), or "error429" (another
\* failure whose message holds the text 429).  The catch logs the error and
\* re-throws it when its message includes "429"; step.do passes the rejection
\* on, run() rejects and fetch() answers from its catch.
EnforceRespond(answers) ==
    /\ run.pc = "enforce"
    /\ \E w \in answers :
         CASE w = "created" ->
                /\ nextRule <= MaxRequests
                /\ run' = [run EXCEPT !.pc = "put", !.ruleId = RuleId(nextRule),
                                      !.createAnswer = w]
                /\ rules' = rules \cup {RuleId(nextRule)}
                /\ created' = created \cup {RuleId(nextRule)}
                /\ nextRule' = nextRule + 1
           [] w \in {"429", "error429"} ->
                /\ run' = [run EXCEPT !.pc = "done", !.thrown = TRUE,
                                      !.createAnswer = w, !.response = ApiError]
                /\ UNCHANGED <<rules, created, nextRule>>
           [] OTHER ->
                /\ run' = [run EXCEPT !.pc = "put", !.createAnswer = w]
                /\ UNCHANGED <<rules, created, nextRule>>
    /\ UNCHANGED <<agentVars, ipsReq, parkedSweep, classified, parked, now, cfg, cache, registry, deleteReqs, sweep>>

\* The registry write with expirationTtl of one hour (a failed put is logged
\* and dropped), the return of run() and the 200 response.
MitigatePut(writes) ==
    /\ run.pc = "put"
    /\ \E w \in writes :
         /\ registry' =
               IF w = "ok"
               THEN [registry EXCEPT ![run.sourceIP] =
                       [present |-> TRUE,
                        ruleId |-> IF run.ruleId = Undefined
                                   THEN Str("tracked-only") ELSE run.ruleId,
                        expiresAt |-> run.expiresAt,
                        kvExpires |-> now + Hour]]
               ELSE registry
         /\ run' = [run EXCEPT !.pc = "done", !.put = w,
                               !.response = Analyzed(run.assessment)]
    /\ UNCHANGED <<agentVars, ipsReq, parkedSweep, classified, parked, now, cfg, cache, rules, nextRule, created,
                   deleteReqs, sweep>>

\* A request arrives while another is suspended at an await of its pipeline:
\* the handler of the new one runs up to its own first await.
Overlap(payloads, ips, reads) ==
    /\ run.pc \notin {"idle", "done"}
    /\ parked.pc \in {"idle", "done"}
    /\ Served < MaxRequests
    /\ \E p \in payloads, ip \in ips, read \in reads :
         run' = Accept(p, ip, read, Served + 1)
    /\ parked' = run
    /\ UNCHANGED <<agentVars, ipsReq, parkedSweep, classified, storeVars, sweep>>

\* The request being executed reaches an await (or has answered) and the
\* event loop resumes the suspended one.
Switch ==
    /\ parked.pc \notin {"idle", "done"}
    /\ run' = parked
    /\ parked' = run
    /\ UNCHANGED <<agentVars, ipsReq, parkedSweep, classified, storeVars, sweep>>

(***************************************************************************)
(* fetch(): the IPS middleware                                             *)
(***************************************************************************)
\* A request to a non-excluded path: the payload is extracted, the cache key
\* computed and the cache read; getAssessment turns a failed read into a miss.
IpsReceive(payloads, sources, reads) ==
    /\ ipsReq.pc \in {"idle", "done"}
    /\ ipsReq.served < MaxRequests
    /\ \E p \in payloads, ip \in sources, read \in reads :
         LET cached == IF read = "ok" THEN cache[cacheKeyOf(p)] ELSE NoAssessment
             r == [IdleIps EXCEPT !.payload = p, !.sourceIP = ip, !.read = read,
                                  !.served = ipsReq.served + 1]
         IN ipsReq' = IF cached # NoAssessment
                      THEN [r EXCEPT !.pc = "enforce", !.assessment = cached]
                      ELSE [r EXCEPT !.pc = "analyze"]
    /\ UNCHANGED <<agentVars, storeVars, classified, run, parked, sweep, parkedSweep>>

\* analyzeRequestInline settles (the validated verdict, or the System Failure
\* default from its catch) and the verdict is stored unless it is the default;
\* storeAssessment logs and drops a failed write.
IpsAnalyze(outcomes, writes) ==
    /\ ipsReq.pc = "analyze"
    /\ \E r \in outcomes, w \in writes :
         LET a == aiRiskInference(r).result
         IN /\ ipsReq' = [ipsReq EXCEPT !.pc = "enforce", !.answer = r, !.assessment = a]
            /\ cache' = IF a.attackType # Str("System Failure") /\ w = "ok"
                        THEN [cache EXCEPT ![cacheKeyOf(ipsReq.payload)] = a]
                        ELSE cache
    /\ UNCHANGED <<agentVars, now, cfg, registry, rules, nextRule, created, deleteReqs,
                   classified, run, parked, sweep, parkedSweep>>

\* The enforcement: above 90 the record of the source is put and the request
\* answered 403; a put that rejects leaves the try block for the catch of the
\* middleware, which answers as the origin does.  Otherwise the request is
\* passed through.
IpsEnforce(writes) ==
    /\ ipsReq.pc = "enforce"
    /\ \E w \in writes :
         IF JsGreater(ipsReq.assessment.riskScore, 90)
         THEN IF w = "ok"
              THEN /\ registry' = [registry EXCEPT ![ipsReq.sourceIP] =
                                     [present |-> TRUE, ruleId |-> Str("ips-blocked"),
                                      expiresAt |-> now + Hour, kvExpires |-> now + Hour]]
                   /\ ipsReq' = [ipsReq EXCEPT !.pc = "done", !.put = w,
                                               !.response = Forbidden(ipsReq.assessment)]
              ELSE /\ ipsReq' = [ipsReq EXCEPT !.pc = "done", !.put = w,
                                               !.response = PassThrough]
                   /\ UNCHANGED registry
         ELSE /\ ipsReq' = [ipsReq EXCEPT !.pc = "done", !.response = PassThrough]
              /\ UNCHANGED registry
    /\ UNCHANGED <<agentVars, now, cfg, cache, rules, nextRule, created, deleteReqs,
                   classified, run, parked, sweep, parkedSweep>>

(***************************************************************************)
(* scheduled(): the cleanup                                                *)
(***************************************************************************)
\* The keys "mitigation:<ip>" the store holds, in key order, after `cursor`.
RECURSIVE KeysAfter(_, _)
KeysAfter(reg, cursor) ==
    LET S == {ip \in SourceIPs : ip > cursor /\ reg[ip].present}
    IN IF S = {} THEN <<>>
       ELSE LET m == CHOOSE x \in S : \A y \in S : x <= y
            IN <<m>> \o KeysAfter(reg, m)

\* SENTINEL_KV.list({prefix, limit, cursor}): one page, whether it was the
\* last, and the cursor that continues after it.
KVList(reg, cursor, limit) ==
    LET rest == KeysAfter(reg, cursor)
        page == SubSeq(rest, 1, Min(limit, Len(rest)))
    IN [keys |-> page,
        list_complete |-> Len(rest) <= limit,
        cursor |-> IF page = <<>> THEN cursor ELSE page[Len(page)]]

\* The cron trigger fires: scheduled() starts with its counters at zero.
SweepStart ==
    /\ sweep.pc \in {"idle", "done", "aborted"}
    /\ sweep' = [IdleSweep EXCEPT !.pc = "list",
                                  !.snapshot = {ip \in SourceIPs : registry[ip].present}]
    /\ UNCHANGED <<agentVars, ipsReq, parkedSweep, classified, parked, storeVars, run>>

\* NextKey with the loop running until a page comes back empty.
NextKey_UntilEmptyPage(s) ==
    IF s.idx < Len(s.keys)
    THEN [s EXCEPT !.pc = "key", !.idx = s.idx + 1, !.ruleId = Undefined,
                   !.visited = Append(s.visited, s.keys[s.idx + 1])]
    ELSE [s EXCEPT !.pc = IF s.keys = <<>> THEN "done" ELSE "list",
                   !.cursor = s.nextCursor,
                   !.nextCursor = 0, !.keys = <<>>, !.idx = 0, !.ruleId = Undefined]

\* NextKey with the cursor left as it was.
NextKey_StaleCursor(s) ==
    IF s.idx < Len(s.keys)
    THEN [s EXCEPT !.pc = "key", !.idx = s.idx + 1, !.ruleId = Undefined,
                   !.visited = Append(s.visited, s.keys[s.idx + 1])]
    ELSE [s EXCEPT !.pc = IF s.listComplete THEN "done" ELSE "list",
                   !.nextCursor = 0, !.keys = <<>>, !.idx = 0, !.ruleId = Undefined]

\* After the last key of a page: the cursor update and the loop condition.
NextKey(s) ==
    IF s.idx < Len(s.keys)
    THEN [s EXCEPT !.pc = "key", !.idx = s.idx + 1, !.ruleId = Undefined,
                   !.visited = Append(s.visited, s.keys[s.idx + 1])]
    ELSE [s EXCEPT !.pc = IF s.listComplete THEN "done" ELSE "list",
                   !.cursor = IF s.listComplete THEN 0 ELSE s.nextCursor,
                   !.nextCursor = 0, !.keys = <<>>, !.idx = 0, !.ruleId = Undefined]

\* One iteration of the do-while up to the for loop: the list call.  A list
\* call that rejects leaves the loop for the outer catch: scheduled() logs the
\* error and returns.
SweepList(answers) ==
    /\ sweep.pc = "list"
    /\ \E w \in answers :
         LET res == KVList(registry, sweep.cursor, PageLimit)
             s == [sweep EXCEPT !.batchNumber = sweep.batchNumber + 1,
                                !.totalKeysScanned = sweep.totalKeysScanned + Len(res.keys),
                                !.listComplete = res.list_complete,
                                !.keys = res.keys,
                                !.nextCursor = res.cursor,
                                !.idx = 0]
         IN sweep' = IF w = "ok"
                     THEN NextKey(s)
                     ELSE [sweep EXCEPT !.pc = "aborted",
                                        !.batchNumber = sweep.batchNumber + 1]
    /\ UNCHANGED <<agentVars, ipsReq, parkedSweep, classified, parked, storeVars, run>>

\* The body of the for loop up to its first await on the firewall API: the
\* get, the expiry test, and either the DELETE request (credentials
\* configured) or the local delete.
SweepKey ==
    /\ sweep.pc = "key"
    /\ LET key == sweep.keys[sweep.idx]
           metadata == registry[key]
       IN IF ~metadata.present
          THEN /\ sweep' = NextKey(sweep)
               /\ UNCHANGED <<registry, deleteReqs>>
          ELSE IF now >= metadata.expiresAt
          THEN IF cfg.cf
               THEN /\ deleteReqs' = deleteReqs \cup {metadata.ruleId}
                    /\ sweep' = [sweep EXCEPT !.pc = "delete", !.ruleId = metadata.ruleId,
                                              !.requested = @ \cup {key}]
                    /\ UNCHANGED registry
               ELSE /\ registry' = [registry EXCEPT ![key] = NoRecord]
                    /\ sweep' = NextKey([sweep EXCEPT !.removed = @ + 1])
                    /\ UNCHANGED deleteReqs
          ELSE /\ sweep' = NextKey(sweep)
               /\ UNCHANGED <<registry, deleteReqs>>
    /\ UNCHANGED <<agentVars, ipsReq, parkedSweep, classified, parked, now, cfg, cache, rules, nextRule, created, run>>

\* Variant of SweepDeleteRespond: the total counts every record the KV delete
\* is reached for, whatever the firewall API answered.
SweepDeleteRespond_CountsRecords(answers) ==
    /\ sweep.pc = "delete"
    /\ \E w \in answers :
         LET key == sweep.keys[sweep.idx]
             gone == IF registry[key].present THEN 1 ELSE 0
         IN CASE w = "ok" ->
                   /\ sweep.ruleId \in rules
                   /\ rules' = rules \ {sweep.ruleId}
                   /\ registry' = [registry EXCEPT ![key] = NoRecord]
                   /\ sweep' = NextKey([sweep EXCEPT !.cleanedCount = sweep.cleanedCount + 1,
                                                     !.removed = @ + gone,
                                                     !.deletedRules = @ \cup {sweep.ruleId}])
              [] w = "notfound" ->
                   /\ sweep.ruleId \notin rules
                   /\ registry' = [registry EXCEPT ![key] = NoRecord]
                   /\ sweep' = NextKey([sweep EXCEPT !.cleanedCount = sweep.cleanedCount + 1,
                                                     !.removed = @ + gone])
                   /\ UNCHANGED rules
              [] w = "error" ->
                   /\ registry' = [registry EXCEPT ![key] = NoRecord]
                   /\ sweep' = NextKey([sweep EXCEPT !.cleanedCount = sweep.cleanedCount + 1,
                                                     !.removed = @ + gone])
                   /\ UNCHANGED rules
              [] OTHER ->
                   /\ sweep' = NextKey([sweep EXCEPT !.errorCount = sweep.errorCount + 1])
                   /\ UNCHANGED <<rules, registry>>
    /\ UNCHANGED <<agentVars, ipsReq, parkedSweep, classified, parked, now, cfg, cache, nextRule, created, deleteReqs, run>>

\* The firewall API answers the DELETE: "ok" (the rule existed and is gone),
\* "notfound" (no such rule: a non-2xx status), "error" (another non-2xx
\* status) or "throw" (the fetch rejects).  The KV delete
\* follows the if/else on response.ok; a rejected fetch leaves the try block
\* before it and lands in the per-key catch.
SweepDeleteRespond(answers) ==
    /\ sweep.pc = "delete"
    /\ \E w \in answers :
         LET key == sweep.keys[sweep.idx]
             gone == IF registry[key].present THEN 1 ELSE 0
         IN CASE w = "ok" ->
                   /\ sweep.ruleId \in rules
                   /\ rules' = rules \ {sweep.ruleId}
                   /\ registry' = [registry EXCEPT ![key] = NoRecord]
                   /\ sweep' = NextKey([sweep EXCEPT !.cleanedCount = sweep.cleanedCount + 1,
                                                     !.removed = @ + gone,
                                                     !.deletedRules = @ \cup {sweep.ruleId}])
              [] w = "notfound" ->
                   /\ sweep.ruleId \notin rules
                   /\ registry' = [registry EXCEPT ![key] = NoRecord]
                   /\ sweep' = NextKey([sweep EXCEPT !.errorCount = sweep.errorCount + 1,
                                                     !.removed = @ + gone])
                   /\ UNCHANGED rules
              [] w = "error" ->
                   /\ registry' = [registry EXCEPT ![key] = NoRecord]
                   /\ sweep' = NextKey([sweep EXCEPT !.errorCount = sweep.errorCount + 1,
                                                     !.removed = @ + gone])
                   /\ UNCHANGED rules
              [] OTHER ->
                   /\ sweep' = NextKey([sweep EXCEPT !.errorCount = sweep.errorCount + 1])
                   /\ UNCHANGED <<rules, registry>>
    /\ UNCHANGED <<agentVars, ipsReq, parkedSweep, classified, parked, now, cfg, cache, nextRule, created, deleteReqs, run>>

\* The cron trigger fires again while an invocation of scheduled() is
\* suspended at an await: a second invocation starts.
SweepOverlap ==
    /\ sweep.pc \in {"list", "key", "delete"}
    /\ parkedSweep.pc \in {"idle", "done", "aborted"}
    /\ parkedSweep' = sweep
    /\ sweep' = [IdleSweep EXCEPT !.pc = "list",
                                  !.snapshot = {ip \in SourceIPs : registry[ip].present}]
    /\ UNCHANGED <<agentVars, ipsReq, classified, parked, storeVars, run>>

\* The invocation being executed reaches an await (or has returned) and the
\* event loop resumes the suspended one.
SweepSwitch ==
    /\ parkedSweep.pc \in {"list", "key", "delete"}
    /\ sweep' = parkedSweep
    /\ parkedSweep' = sweep
    /\ UNCHANGED <<agentVars, ipsReq, classified, parked, storeVars, run>>

\* Time passes.  A registry entry was put with expirationTtl: the store drops
\* it once its TTL has run out.
Tick ==
    /\ now < MaxTime
    /\ now' = now + 1
    /\ registry' = [ip \in SourceIPs |->
                      IF registry[ip].present /\ registry[ip].kvExpires <= now + 1
                      THEN NoRecord ELSE registry[ip]]
    /\ UNCHANGED <<agentVars, ipsReq, parkedSweep, classified, parked, cfg, cache, rules, nextRule, created, deleteReqs,
                   run, sweep>>

(***************************************************************************)
(* Specifications                                                          *)
(***************************************************************************)
AgentIdle ==
    /\ agentPc = "start"
    /\ agentFlags = {}
    /\ agentKeywords = 0
    /\ aiAnswer = NoAnswer
    /\ agentResult = NoAssessment
    /\ agentPath = "none"
    /\ aiCalls = 0
    /\ deadlinePassed = FALSE

WorkerIdle == WorkerInit /\ cfg = [soc |-> FALSE, cf |-> FALSE]

AgentSpecInit == AgentInit /\ NormIdle /\ WorkerIdle

Init == AgentIdle /\ NormIdle /\ WorkerInit

KVOutcomes == {"ok", "fail"}
WebhookAnswers == {"ok", "error", "throw"}
CreateAnswers == {"created", "429", "error", "error429"}
DeleteAnswers == {"ok", "notfound", "error", "throw"}

\* One /v1/analyze request after another, with every answer the classifier,
\* the stores, the webhook and the firewall API can give.  No cleanup runs
\* and no hour passes.
PipelineNext ==
    \/ Receive(Payloads, Clients \cup {NoIP}, KVOutcomes)
    \/ Infer(WorkerAIOutcomes)
    \/ LogAndCache(KVOutcomes)
    \/ TriggerSocAlert(WebhookAnswers)
    \/ MitigateBegin
    \/ EnforceRespond(CreateAnswers)
    \/ MitigatePut(KVOutcomes)

PipelineSpec == Init /\ [][PipelineNext]_vars

\* The IPS middleware screening one request after another, with every answer
\* the classifier and the stores can give.
IpsNext ==
    \/ IpsReceive(Payloads, Clients, KVOutcomes)
    \/ IpsAnalyze(WorkerAIOutcomes, KVOutcomes)
    \/ IpsEnforce(KVOutcomes)

IpsSpec == Init /\ [][IpsNext]_vars

\* The verdicts that reach each tier of "mitigate-threat": not tracked (70),
\* tracked only (85), blocked (95), and the fail-safe default (AI.run rejects).
TierOutcomes ==
    {AIOutcome("throw", NoAssessment)}
    \cup {AIOutcome("json", Verdict(k, "block")) : k \in {70, 85, 95}}

\* The worker as deployed: requests from known sources, the cron-triggered
\* cleanup and the clock, interleaved step by step.
Next ==
    \/ Receive({<<"a">>}, Clients, {"ok"})
    \/ Infer(TierOutcomes)
    \/ LogAndCache({"ok"})
    \/ TriggerSocAlert({"ok"})
    \/ MitigateBegin
    \/ EnforceRespond(CreateAnswers)
    \/ MitigatePut(KVOutcomes)
    \/ SweepStart
    \/ SweepList(KVOutcomes)
    \/ SweepKey
    \/ SweepDeleteRespond(DeleteAnswers)
    \/ Tick

Spec == Init /\ [][Next]_vars

\* The worker with every collaborator healthy: the stores and the webhook
\* answer, the firewall API creates what it is asked to create and deletes
\* what exists.  Every started step is eventually taken, the cron trigger
\* keeps firing and the clock keeps running.
HealthyNext ==
    \/ Receive({<<"a">>}, Clients, {"ok"})
    \/ Infer(TierOutcomes)
    \/ LogAndCache({"ok"})
    \/ TriggerSocAlert({"ok"})
    \/ MitigateBegin
    \/ EnforceRespond({"created"})
    \/ MitigatePut({"ok"})
    \/ SweepStart
    \/ SweepList({"ok"})
    \/ SweepKey
    \/ SweepDeleteRespond({"ok", "notfound"})
    \/ Tick

HealthyFairness ==
    /\ WF_vars(Infer(TierOutcomes))
    /\ WF_vars(LogAndCache({"ok"}))
    /\ WF_vars(TriggerSocAlert({"ok"}))
    /\ WF_vars(MitigateBegin)
    /\ WF_vars(EnforceRespond({"created"}))
    /\ WF_vars(MitigatePut({"ok"}))
    /\ WF_vars(SweepStart)
    /\ WF_vars(SweepList({"ok"}))
    /\ WF_vars(SweepKey)
    /\ WF_vars(SweepDeleteRespond({"ok", "notfound"}))
    /\ WF_vars(Tick)

FairSpec == Init /\ [][HealthyNext]_vars /\ HealthyFairness

\* Two /v1/analyze requests that may overlap in time, with the classifier,
\* the stores, the webhook and the firewall API all healthy.
ValidVerdicts == {AIOutcome("json", Verdict(k, "block")) : k \in {70, 85, 95}}

OverlapNext ==
    \/ Receive({<<"a">>}, Clients, {"ok"})
    \/ Overlap({<<"a">>}, Clients, {"ok"})
    \/ Switch
    \/ Infer(ValidVerdicts)
    \/ LogAndCache({"ok"})
    \/ TriggerSocAlert({"ok"})
    \/ MitigateBegin
    \/ EnforceRespond({"created"})
    \/ MitigatePut({"ok"})

OverlapSpec == Init /\ [][OverlapNext]_vars

\* Registry entries as requests leave them: written in this hour (Live), or
\* written by a request that began in the hour before (Lapsed: expiresAt has
\* passed, the store's TTL has not).
Live ==
    [present |-> TRUE, ruleId |-> Str("tracked-only"),
     expiresAt |-> Hour + Hour, kvExpires |-> Hour + Hour]
Lapsed ==
    [present |-> TRUE, ruleId |-> Str("tracked-only"),
     expiresAt |-> Hour, kvExpires |-> Hour + Hour]

\* One hour in, with any registry the requests of that hour can have left.
SweepInit ==
    /\ AgentIdle
    /\ NormIdle
    /\ now = Hour
    /\ cfg \in [soc : BOOLEAN, cf : BOOLEAN]
    /\ cache = [k \in CacheKeys |-> NoAssessment]
    /\ registry \in [SourceIPs -> {NoRecord, Live, Lapsed}]
    /\ rules = {}
    /\ nextRule = 1
    /\ created = {}
    /\ deleteReqs = {}
    /\ classified = [k \in CacheKeys |-> 0]
    /\ run = IdleRun(0)
    /\ parked = IdleRun(0)
    /\ sweep = IdleSweep
    /\ parkedSweep = IdleSweep
    /\ ipsReq = IdleIps

\* scheduled() alone: no request is served and no hour passes while it runs.
SweepNext ==
    \/ SweepStart
    \/ SweepList(KVOutcomes)
    \/ SweepKey
    \/ SweepDeleteRespond(DeleteAnswers)

SweepSpec == SweepInit /\ [][SweepNext]_vars

\* The record of a source whose block rule was created by a request that
\* began in the hour before: expiresAt has passed.
Blocked ==
    [present |-> TRUE, ruleId |-> RuleId(1),
     expiresAt |-> Hour, kvExpires |-> Hour + Hour]

\* One hour in: source 1 is blocked and its record has lapsed; other sources
\* may have lapsed tracking records.
TwoSweepInit ==
    /\ AgentIdle
    /\ NormIdle
    /\ now = Hour
    /\ cfg \in [soc : BOOLEAN, cf : BOOLEAN]
    /\ cache = [k \in CacheKeys |-> NoAssessment]
    /\ registry \in {r \in [SourceIPs -> {NoRecord, Lapsed, Blocked}] :
                        \A ip \in SourceIPs : r[ip] = Blocked <=> ip = 1}
    /\ rules = {RuleId(1)}
    /\ nextRule = 2
    /\ created = {RuleId(1)}
    /\ deleteReqs = {}
    /\ classified = [k \in CacheKeys |-> 0]
    /\ run = IdleRun(0)
    /\ parked = IdleRun(0)
    /\ sweep = IdleSweep
    /\ parkedSweep = IdleSweep
    /\ ipsReq = IdleIps

\* Invocations of scheduled() that may overlap in time, with the registry
\* and the firewall API healthy.
TwoSweepNext ==
    \/ SweepStart
    \/ SweepOverlap
    \/ SweepSwitch
    \/ SweepList({"ok"})
    \/ SweepKey
    \/ SweepDeleteRespond({"ok", "notfound"})

TwoSweepSpec == TwoSweepInit /\ [][TwoSweepNext]_vars

\* scheduled() alone over a registry that holds the lapsed record of a
\* blocked source, with every answer the stores and the firewall API can give.
BlockedSweepSpec == TwoSweepInit /\ [][SweepNext]_vars

\* SQLiAgent.normalize on one string, and again on what it returned.
NormSpecInit == AgentIdle /\ NormInit /\ WorkerIdle

NormSpec == NormSpecInit /\ [][CallNormalize]_vars

\* SQLiAgent.analyze on one payload.
AgentSpec == AgentSpecInit /\ [][AgentNext]_vars

\* The agent takes every step of its own that is enabled.  AI.run is awaited
\* without a timeout: when, and whether, it settles is the classifier's.
AgentFairSpec == AgentSpecInit /\ [][AgentNext]_vars /\ WF_vars(analyze)

(***************************************************************************)
(* Claims                                                                  *)
(***************************************************************************)
\* The heuristic score of the payload the agent is analyzing.
AgentScore == heuristicAnalysis(agentFlags, agentKeywords)

\* run() has returned or rejected and fetch() has answered.
Answered == run.pc = "done" /\ run.path # "none"

\* C1: once classification has produced an Assessment A, the caller of
\* /v1/analyze receives exactly A, however the alerting, record-writing and
\* enforcement steps end (an enforcement create answered 429 included).
C1_AssessmentSurvivesSideEffects ==
    (Answered /\ run.path \in {"verdict", "failsafe"})
        => run.response = Analyzed(run.assessment)

\* C2: when the classifier answers parseable JSON that is not a
\* SecurityAssessment, the arbiter returns its fallback Assessment and never
\* the non-conforming object.
C2_NonConformingYieldsFallback ==
    (agentPc = "done" /\ aiAnswer.kind = "json" /\ ~isSecurityAssessment(aiAnswer.obj))
        => /\ agentPath = "fallback"
           /\ agentResult = HeuristicFallback(AgentScore)

\* C3: the riskScore of every Assessment returned to the caller is a number
\* in [0,100].
C3_RiskScoreInRange ==
    (Answered /\ run.response.status = 200)
        => /\ run.response.assessment.riskScore.t = "number"
           /\ run.response.assessment.riskScore.n \in 0..100

\* C4: a classifier verdict with action block and a riskScore of 0..74 comes
\* back from the arbiter with riskScore >= 75.
C4_BlockRaisedToFloor ==
    (/\ agentPc = "done"
     /\ aiAnswer.kind = "json"
     /\ aiAnswer.obj.action = Str("block")
     /\ aiAnswer.obj.riskScore \in {Num(k) : k \in 0..74})
        => JsGreaterEq(agentResult.riskScore, 75)

\* C5: an internal error raised during a /v1/analyze run is turned into a
\* fail-closed Assessment (riskScore 100, action block) for the caller,
\* never into an error response.
C5_ErrorsBecomeFailClosed ==
    (Answered /\ run.thrown)
        => /\ run.response.body = "analyzed"
           /\ run.response.assessment.riskScore = Num(100)
           /\ run.response.assessment.action = Str("block")

\* C6: when the caller's deadline passes while the classifier has not
\* answered, the arbiter eventually returns its fallback Assessment.
C6_DeadlineLeadsToFallback ==
    (agentPc = "awaitAI" /\ deadlinePassed)
        ~> (agentPc = "done" /\ agentPath = "fallback")

\* C7: an Assessment returned with action block either comes from a
\* fail-closed fallback path or has a riskScore of at least 75.
C7_BlockImpliesThresholdOrFallback ==
    (/\ Answered
     /\ run.response.status = 200
     /\ run.response.assessment.action = Str("block"))
        => \/ run.response.assessment.attackType = Str("System Failure")
           \/ JsGreaterEq(run.response.assessment.riskScore, 75)

\* C8: when the sweep is done with an expired entry for whose created rule it
\* requested the external delete, the local record is gone, whatever the
\* firewall API answered (success, an error status, a failed fetch).
C8_ExpiredRecordDeletedWhateverTheAnswer ==
    [][(sweep.pc = "delete" /\ sweep.ruleId \in created /\ sweep' # sweep)
         => ~registry'[sweep.keys[sweep.idx]].present]_vars

\* C9: the sweep requests the deletion of an external rule only with the
\* ruleId of a rule that was created; for a tracking-only record it requests
\* none.
C9_DeleteOnlyCreatedRules == deleteReqs \subseteq created

\* C10: with sweeps being scheduled and the registry and the firewall API
\* answering successfully, the deletion of every block rule the pipeline
\* created is eventually requested.
C10_EveryRuleEventuallyDeleted ==
    \A k \in 1..MaxRequests :
        (RuleId(k) \in created) ~> (RuleId(k) \in deleteReqs)

\* C11: a MitigationRecord leaves the registry only when a sweep that sees
\* now >= expiresAt deletes it; neither a pipeline run nor the store's own
\* expiry removes it.
C11_OnlySweepRemovesRecords ==
    [][\A ip \in SourceIPs :
         (registry[ip].present /\ ~registry'[ip].present)
            => /\ sweep.pc \in {"key", "delete"}
               /\ sweep' # sweep
               /\ now >= registry[ip].expiresAt]_vars

\* C12: a run whose enforcement create request was answered 429 has issued
\* the request again: it made more than one POST.
C12_RateLimitedCreateIsRetried ==
    (Answered /\ run.createAnswer = "429") => run.posts >= 2

\* C13: when the enforcement create request has failed (rate limited or
\* another error), the registry holds the source's record, and the record is
\* tracking-only.
C13_FailedCreateLeavesTrackingRecord ==
    (/\ Answered
     /\ run.createAnswer \in {"429", "error", "error429"}
     /\ run.put # "fail")
        => /\ registry[run.sourceIP].present
           /\ registry[run.sourceIP].ruleId = Str("tracked-only")

\* C14: a run with a known source whose Assessment has riskScore >= 70 has
\* written the source's MitigationRecord, whether or not enforcement was
\* requested or succeeded.
C14_HighRiskIsTracked ==
    (/\ Answered
     /\ run.path \in {"verdict", "failsafe"}
     /\ run.sourceIP # NoIP
     /\ JsGreaterEq(run.assessment.riskScore, 70)
     /\ run.put # "fail")
        => registry[run.sourceIP].present

\* C15: for one payload the classifier is invoked at most once, however the
\* requests carrying it interleave.
C15_ClassifiedAtMostOnce == \A k \in CacheKeys : classified[k] <= 1

\* C16: a request misses the cache only when the cache holds no entry for any
\* payload with the same canonical text: payloads with one canonical text
\* share one cache key.
C16_CanonicalTextSharesCacheEntry ==
    (run.pc = "infer" /\ run.read = "ok")
        => \A q \in Payloads :
              sanitizePayload(q) = sanitizePayload(run.payload)
                 => cache[cacheKeyOf(q)] = NoAssessment

\* C17: normalize is idempotent: called on its own result, it returns that
\* result unchanged.
C17_NormalizeIdempotent == (normCalls = 2) => normText = normFirst

\* C18: no call of normalize makes more than 10 percent-decoding passes.
C18_DecodePassesBounded == normPasses <= 10

\* Page requests a sweep needs for n entries: one per full or part page, and
\* one to find an empty registry empty.
Pages(n) == IF n = 0 THEN 1 ELSE (n + PageLimit - 1) \div PageLimit

\* The entries the registry held when the sweep began.
SweepN == Cardinality(sweep.snapshot)

\* C19 (as stated): a sweep that has finished over N entries made exactly
\* ceil(N/P) page requests, for every N >= 0.
C19_CeilPageRequests ==
    (sweep.pc = "done")
        => sweep.batchNumber = (SweepN + PageLimit - 1) \div PageLimit

\* C19 (amended): a sweep over N entries never makes more than
\* max(1, ceil(N/P)) page requests, and one that has finished made exactly
\* that many, the last of them reporting list_complete.
C19_PageRequests ==
    /\ sweep.batchNumber <= Pages(SweepN)
    /\ (sweep.pc = "done")
          => /\ sweep.batchNumber = Pages(SweepN)
             /\ sweep.listComplete

C19_Witness ==
    /\ sweep.pc = "done"
    /\ SweepN > PageLimit
    /\ sweep.batchNumber >= 2

\* C20: during one sweep no entry is taken twice, every page after the first
\* is requested with the cursor the page before returned, and a sweep that
\* has finished has taken every entry of the registry once and counted as
\* many keys as the registry held.
C20_EveryEntryVisitedOnce ==
    /\ \A i, j \in 1..Len(sweep.visited) :
          sweep.visited[i] = sweep.visited[j] => i = j
    /\ (sweep.pc = "list" /\ sweep.batchNumber > 0)
          => sweep.cursor = sweep.visited[Len(sweep.visited)]
    /\ (sweep.pc = "done")
          => /\ {sweep.visited[i] : i \in 1..Len(sweep.visited)} = sweep.snapshot
             /\ sweep.totalKeysScanned = SweepN

C20_Witness ==
    /\ sweep.pc = "done"
    /\ Len(sweep.visited) > PageLimit
    /\ sweep.totalKeysScanned = Len(sweep.visited)

\* C21: two invocations of the sweep that overlap never both request the
\* deletion of the rule of one record, and once both have returned the
\* registry holds no expired record, as after a single sweep.
C21_OverlappingSweepsDeleteOnce ==
    /\ sweep.requested \cap parkedSweep.requested = {}
    /\ (sweep.pc = "done" /\ parkedSweep.pc \in {"idle", "done"})
          => \A ip \in SourceIPs :
                registry[ip].present => now < registry[ip].expiresAt

\* The request the worker served before this one carried the same raw payload.
SamePayloadAgain ==
    /\ run.pc # "idle"
    /\ run.prev.path # "none"
    /\ run.prev.payload = run.payload

\* The request was answered from the cache with the Assessment of the request
\* before it, and the classifier was not called for it.
FromCacheOfPrev ==
    /\ run.pc = "done"
    /\ run.path = "cached"
    /\ run.answer = NoAnswer
    /\ run.response = Cached(run.prev.assessment)

\* C22 (as stated): with a healthy cache store, the second of two sequential
\* requests carrying the same raw payload is answered from the cache with the
\* Assessment of the first and without the classifier, whatever Assessment
\* the first run produced.
C22_SecondAlwaysFromCache ==
    (SamePayloadAgain /\ run.read = "ok" /\ run.prev.cacheWrite # "fail")
        => FromCacheOfPrev

\* C22 (amended): the second request is answered from the cache with the
\* Assessment of the first, without the classifier, when its cache read
\* succeeds and the first was itself answered from the cache or produced a
\* validated verdict whose cache write succeeded; a first run that ended in
\* the "System Failure" default wrote nothing, and the second request with a
\* healthy cache read is classified again.
C22_SecondFromCacheUnlessFailure ==
    /\ (SamePayloadAgain /\ run.read = "ok"
          /\ (run.prev.path = "cached"
                \/ (run.prev.path = "verdict" /\ run.prev.cacheWrite = "ok")))
          => FromCacheOfPrev
    /\ (SamePayloadAgain /\ run.read = "ok" /\ run.prev.path = "failsafe"
          /\ cache[cacheKeyOf(run.payload)] = NoAssessment)
          => run.path # "cached"

C22_Witness ==
    /\ SamePayloadAgain
    /\ run.prev.path = "verdict"
    /\ run.prev.cacheWrite = "ok"
    /\ FromCacheOfPrev
    /\ classified[cacheKeyOf(run.payload)] = 1

\* The run has passed step "trigger-soc-alert".
PastAlert ==
    /\ run.pc \in {"mitigate", "enforce", "put", "done"}
    /\ run.path \in {"verdict", "failsafe"}

\* C23 (as stated): with a SOC webhook configured, a run raises an alert for
\* its Assessment if and only if riskScore >= 90 or action is block.
C23_AlertIffNinetyOrBlock ==
    (PastAlert /\ cfg.soc)
        => (run.alert.sent <=> (JsGreaterEq(run.assessment.riskScore, 90)
                                  \/ run.assessment.action = Str("block")))

\* C23 (amended): a run that classified its payload raises an alert if and
\* only if a SOC webhook is configured and its Assessment has action block or
\* riskScore > 80; an Assessment with another action and riskScore of 80 or
\* less raises none.
C23_AlertIffAboveEightyOrBlock ==
    PastAlert
        => (run.alert.sent <=> (cfg.soc
                                  /\ (JsGreater(run.assessment.riskScore, 80)
                                        \/ run.assessment.action = Str("block"))))

C23_Witness ==
    /\ PastAlert
    /\ run.assessment = Verdict(85, "allow")
    /\ run.alert.sent

\* The claimed severity label and id of a riskScore.
ClaimedSeverity(a) ==
    IF JsGreaterEq(a.riskScore, 95) THEN "critical"
    ELSE IF JsGreaterEq(a.riskScore, 90) THEN "high"
    ELSE IF JsGreaterEq(a.riskScore, 70) THEN "medium"
    ELSE "informational"

ClaimedSeverityId(a) ==
    IF JsGreaterEq(a.riskScore, 95) THEN 5
    ELSE IF JsGreaterEq(a.riskScore, 90) THEN 4
    ELSE IF JsGreaterEq(a.riskScore, 70) THEN 3
    ELSE 1

\* C24: every alert's severity label and severity_id follow riskScore as
\* critical (5) from 95, high (4) from 90, medium (3) from 70 and
\* informational (1) below.
C24_SeverityTiers ==
    run.alert.sent
        => /\ run.alert.severity = ClaimedSeverity(run.assessment)
           /\ run.alert.severity_id = ClaimedSeverityId(run.assessment)

\* C25: a rule creation request is sent only for an Assessment with
\* riskScore >= 95; a run whose Assessment has a lower riskScore sends none
\* and creates no rule, its action being block included.
C25_EnforceOnlyFromNinetyFive ==
    /\ run.posts >= 1 => JsGreaterEq(run.assessment.riskScore, 95)
    /\ (PastAlert /\ JsLess(run.assessment.riskScore, 95))
          => /\ run.posts = 0
             /\ run.createAnswer = "none"
             /\ run.ruleId = Undefined

C25_Witness ==
    /\ run.posts = 1
    /\ run.createAnswer = "created"
    /\ run.assessment = Verdict(95, "block")
    /\ run.prev.assessment = Verdict(85, "block")
    /\ run.prev.path = "verdict"

\* AI.run rejected, or its answer is not parseable as JSON.
ClassifierFailed == aiAnswer # NoAnswer /\ aiAnswer.kind \in {"throw", "text"}

\* C26: when the classifier call throws or its answer cannot be parsed as
\* JSON, analyze() resolves with the fallback Assessment; it does not reject.
C26_FailureResolvesWithFallback ==
    ClassifierFailed
        => /\ agentPc = "done"
           /\ agentPath = "fallback"
           /\ agentResult # NoAssessment
           /\ agentResult.attackType = Str("SQLi (Heuristic Fallback)")

C26_Witness ==
    /\ agentPc = "done"
    /\ aiAnswer # NoAnswer
    /\ aiAnswer.kind = "throw"
    /\ agentPath = "fallback"

\* C27: for an input whose heuristic score is at most 50 (50 included) the
\* classifier is never called, and the analysis ends with the heuristic
\* low-risk Assessment.
C27_NoClassifierAtOrBelowThreshold ==
    AgentScore <= 50
        => /\ aiCalls = 0
           /\ agentPc \in {"start", "done"}
           /\ agentPc = "done" => /\ agentPath = "heuristic"
                                  /\ agentResult = LowRisk(AgentScore)

C27_Witness ==
    /\ agentPc = "done"
    /\ AgentScore = 50
    /\ aiCalls = 0
    /\ agentPath = "heuristic"

\* C28: the fallback Assessment for heuristic score h (h > 50) is tagged
\* "SQLi (Heuristic Fallback)", has riskScore h and action block when h > 80
\* and flag otherwise, never allow; for h = 85 the action is block.
C28_FallbackFollowsHeuristic ==
    /\ (agentPc = "done" /\ agentPath = "fallback")
          => /\ AgentScore > 50
             /\ agentResult.attackType = Str("SQLi (Heuristic Fallback)")
             /\ agentResult.riskScore = Num(AgentScore)
             /\ agentResult.action =
                   Str(IF AgentScore > 80 THEN "block" ELSE "flag")
    /\ HeuristicFallback(85).action = Str("block")
    /\ HeuristicFallback(85).riskScore = Num(85)

C28_Witness ==
    /\ agentPc = "done"
    /\ agentPath = "fallback"
    /\ AgentScore = 80
    /\ agentResult.action = Str("flag")

\* AI.run rejected, answered text that is not JSON, or answered an object
\* that isSecurityAssessment rejects.
InferenceFailed ==
    /\ run.answer # NoAnswer
    /\ \/ run.answer.kind \in {"throw", "text"}
       \/ run.answer.kind = "json" /\ ~isSecurityAssessment(run.answer.obj)

\* C29: when the AI call of the workflow throws, answers non-JSON text or an
\* object rejected by isSecurityAssessment, "ai-risk-inference" returns the
\* default (System Failure, 100, block) and the run goes on to the next
\* step; nothing is thrown out of the step.
C29_InferenceFailsClosed ==
    InferenceFailed
        => /\ run.assessment = SystemFailure
           /\ run.assessment.riskScore = Num(100)
           /\ run.assessment.action = Str("block")
           /\ run.path = "failsafe"
           /\ run.pc \in {"cache", "alert", "mitigate", "enforce", "put", "done"}
           /\ run.thrown => run.posts >= 1

C29_Witness ==
    /\ run.pc = "cache"
    /\ run.answer.kind = "json"
    /\ ~isSecurityAssessment(run.answer.obj)
    /\ run.assessment = SystemFailure
    /\ ~run.thrown

\* C30: a failed cache read is a miss and a failed cache write is dropped:
\* the request is classified and answered as it is with a healthy store (the
\* response depends on the classifier's and the firewall API's answers
\* alone), and nothing the cache store throws reaches the caller.
C30_CacheFailuresContained ==
    /\ (run.pc # "idle" /\ run.read = "fail")
          => /\ run.path # "cached"
             /\ run.pc = "done" => run.answer # NoAnswer
    /\ run.thrown => run.createAnswer \in {"429", "error429"}
    /\ (Answered /\ run.path \in {"verdict", "failsafe"})
          => run.response =
                IF run.createAnswer \in {"429", "error429"}
                THEN ApiError
                ELSE Analyzed(aiRiskInference(run.answer).result)

C30_Witness ==
    /\ Answered
    /\ run.read = "fail"
    /\ run.cacheWrite = "fail"
    /\ run.path = "verdict"
    /\ cache[cacheKeyOf(run.payload)] # NoAssessment
    /\ run.response = Analyzed(run.assessment)

\* C31: no cache entry ever holds an Assessment whose attackType is "System
\* Failure": a run that ended in the fail-closed default attempts no cache
\* write, and when the request before missed the cache and failed to
\* classify, a request with the same payload misses again and is classified.
C31_SystemFailureNeverCached ==
    /\ \A k \in CacheKeys :
          cache[k] # NoAssessment => cache[k].attackType # Str("System Failure")
    /\ (run.path = "failsafe" /\ run.pc \in {"alert", "mitigate", "enforce", "put", "done"})
          => run.cacheWrite = "none"
    /\ (SamePayloadAgain /\ run.prev.path = "failsafe" /\ run.read = "ok"
          /\ cache[cacheKeyOf(run.payload)] = NoAssessment)
          => /\ run.path # "cached"
             /\ run.pc = "done" => run.answer # NoAnswer

C31_Witness ==
    /\ SamePayloadAgain
    /\ run.prev.path = "failsafe"
    /\ run.read = "ok"
    /\ run.pc = "done"
    /\ run.path = "verdict"
    /\ classified[cacheKeyOf(run.payload)] = 2
    /\ cache[cacheKeyOf(run.payload)] = run.assessment

\* C32: a step of the sweep leaves every entry with now < expiresAt as it is:
\* the record is neither deleted nor modified, and no DELETE is sent for it.
C32_UnexpiredUntouched ==
    [][(sweep' # sweep)
          => \A ip \in SourceIPs :
                (registry[ip].present /\ now < registry[ip].expiresAt)
                   => /\ registry'[ip] = registry[ip]
                      /\ ip \in sweep'.requested => ip \in sweep.requested]_vars

\* C37: a step of the sweep removes a record only if the record it removes
\* is expired at that moment; a record written for the source after the
\* sweep read the expired one survives the sweep's delete.
C37_SweepRemovesOnlyExpired ==
    [][(sweep' # sweep)
          => \A ip \in SourceIPs :
                (registry[ip].present /\ ~registry'[ip].present)
                   => now >= registry[ip].expiresAt]_vars

\* C33: when the canonical text matches none of the structural patterns the
\* heuristic score is at most the flat keyword bonus of 20, however many
\* keywords occur; the analysis ends on the heuristic alone with action allow
\* and the classifier is never called.
C33_KeywordsAloneStayLow ==
    agentFlags = {}
        => /\ AgentScore <= 20
           /\ AgentScore = (IF agentKeywords >= 2 THEN 20 ELSE 0)
           /\ aiCalls = 0
           /\ agentPc = "done" => /\ agentPath = "heuristic"
                                  /\ agentResult.action = Str("allow")
                                  /\ agentResult.riskScore = Num(AgentScore)

C33_Witness ==
    /\ agentFlags = {}
    /\ agentKeywords = MaxKeywords
    /\ agentPc = "done"
    /\ AgentScore = 20
    /\ agentResult.action = Str("allow")

\* No escalation side effect of the run has happened yet.
NothingEscalated ==
    /\ ~run.alert.sent
    /\ run.posts = 0
    /\ run.createAnswer = "none"
    /\ run.put = "none"

\* C34: the steps of one run follow each other without overlap: the cache
\* write starts only once classification has returned its Assessment, and an
\* alert, a registry write or an enforcement request happens only once the
\* cache write of a classified verdict has settled; the registry write comes
\* after the alert step and after the answer to the enforcement request.
C34_StepsStrictlySequential ==
    /\ run.pc = "infer"
          => /\ run.answer = NoAnswer
             /\ run.cacheWrite = "none"
             /\ NothingEscalated
    /\ run.pc = "cache"
          => /\ run.answer # NoAnswer
             /\ run.assessment = aiRiskInference(run.answer).result
             /\ run.cacheWrite = "none"
             /\ NothingEscalated
    /\ run.cacheWrite # "none" => run.answer # NoAnswer
    /\ ~NothingEscalated
          => /\ run.answer # NoAnswer
             /\ run.pc \in {"mitigate", "enforce", "put", "done"}
             /\ run.path = "verdict" => run.cacheWrite \in {"ok", "fail"}
    /\ run.put # "none" => (run.posts >= 1 => run.createAnswer # "none")

C34_Witness ==
    /\ run.pc = "done"
    /\ run.path = "verdict"
    /\ run.cacheWrite = "ok"
    /\ run.alert.sent
    /\ run.posts = 1
    /\ run.createAnswer = "created"
    /\ run.put = "ok"

\* C35 (as stated): at the end of a sweep the deleted total equals the number
\* of records the sweep removed from the registry.
C35_CountEqualsRecordsRemoved ==
    (sweep.pc = "done") => sweep.cleanedCount = sweep.removed

\* C35 (amended): the deleted total of a sweep is the number of firewall
\* rules whose DELETE was answered with success.  Records removed without
\* credentials are counted nowhere, records removed after a failed DELETE are
\* counted as errors, so with credentials the records removed never exceed
\* deleted plus errors.
C35_CountEqualsRulesDeleted ==
    /\ sweep.cleanedCount = Cardinality(sweep.deletedRules)
    /\ sweep.deletedRules \cap rules = {}
    /\ ~cfg.cf => (sweep.cleanedCount = 0 /\ sweep.errorCount = 0)
    /\ cfg.cf => sweep.removed <= sweep.cleanedCount + sweep.errorCount

C35_Witness ==
    /\ sweep.pc = "done"
    /\ sweep.cleanedCount = 1
    /\ sweep.deletedRules = {RuleId(1)}
    /\ sweep.errorCount >= 1
    /\ sweep.removed > sweep.cleanedCount

\* C36: whenever no run is in flight, every block rule the pipeline created
\* and for which no deletion was requested is the ruleId of the registry
\* record of some source, also after a later run for the same source wrote
\* a new record under the same key.
C36_CreatedRulesStayReferenced ==
    (run.pc \in {"idle", "done"} /\ parked.pc \in {"idle", "done"})
        => \A r \in created \ deleteReqs :
              \E ip \in SourceIPs :
                 registry[ip].present /\ registry[ip].ruleId = r

\* C38: a run whose classification failed (System Failure, 100, block), with
\* a known source IP and credentials configured, sends the rule creation
\* request for the source and goes on to write the source's record.
C38_SystemFailureBlocksAndRecords ==
    (Answered /\ run.path = "failsafe" /\ run.sourceIP # NoIP /\ cfg.cf)
        => /\ run.posts = 1
           /\ run.put # "none"

\* C40: a request served from the cache has done the cache read and nothing
\* else: it is answered at once with the stored Assessment, no classifier
\* call, no cache write, no alert, no registry write and no enforcement
\* request were made for it, whatever the stored riskScore and the source.
C40_CacheHitOnlyReads ==
    run.path = "cached"
        => /\ run.pc = "done"
           /\ run.read = "ok"
           /\ run.assessment = cache[cacheKeyOf(run.payload)]
           /\ run.response = Cached(run.assessment)
           /\ run.answer = NoAnswer
           /\ run.cacheWrite = "none"
           /\ NothingEscalated
           /\ run.ruleId = Undefined
           /\ ~run.thrown

C40_Witness ==
    /\ run.path = "cached"
    /\ run.assessment = Verdict(95, "block")
    /\ run.sourceIP # NoIP
    /\ cfg.cf
    /\ cfg.soc
    /\ ~registry[run.sourceIP].present
    /\ created = {}
    /\ classified[cacheKeyOf(run.payload)] = 1

\* C39: every screened request whose Assessment has riskScore > 90 is
\* answered 403 and never passed to the origin with 200, also when the write
\* of its mitigation record fails.
C39_HighRiskAlwaysForbidden ==
    (ipsReq.pc = "done" /\ JsGreater(ipsReq.assessment.riskScore, 90))
        => ipsReq.response = Forbidden(ipsReq.assessment)
====
